---- MODULE Spec2Model ----
(***************************************************************************)
(* Model of dask_ndfourier/core.py: the frequency grid builder             *)
(* _get_freq_grid and the two Fourier-domain filters fourier_gaussian and  *)
(* fourier_shift.  A lazy chunked array is a record (shape, chunks, dtype, *)
(* vals); vals maps every index (a tuple of 0-based coordinates) to the    *)
(* value the array has once evaluated.                                     *)
(*                                                                         *)
(* Numbers are exact: a real number is q * pi^p with q rational, written   *)
(* [num, den, pi].  exp(z) is kept symbolic, as its argument z.            *)
(***************************************************************************)
EXTENDS Integers, Sequences, FiniteSets, TLC

\* Bounds of the model.
MaxRank == 2
MaxSize == 4
MaxSeqLen == 2

(***************************************************************************)
(* Exact arithmetic                                                        *)
(***************************************************************************)
Abs(x) == IF x < 0 THEN -x ELSE x

RECURSIVE GCD(_, _)
GCD(a, b) == IF b = 0 THEN a ELSE GCD(b, a % b)

\* The number (num / den) * pi^p in lowest terms; zero has one representation.
Q(num, den, p) ==
    IF num = 0 THEN [num |-> 0, den |-> 1, pi |-> 0]
    ELSE LET g == GCD(Abs(num), Abs(den))
             s == IF den < 0 THEN -1 ELSE 1
         IN [num |-> (s * num) \div g, den |-> (s * den) \div g, pi |-> p]

QInt(k) == Q(k, 1, 0)
QMul(a, b) == Q(a.num * b.num, a.den * b.den, a.pi + b.pi)
QNeg(a) == Q(-a.num, a.den, a.pi)
QHalf(a) == Q(a.num, 2 * a.den, a.pi)
\* Sum of two numbers carrying the same power of pi (or zero).
QAdd(a, b) ==
    IF a.num = 0 THEN b
    ELSE IF b.num = 0 THEN a
    ELSE Q(a.num * b.den + b.num * a.den, a.den * b.den, a.pi)

RECURSIVE QSum(_)
QSum(s) == IF s = <<>> THEN QInt(0) ELSE QAdd(Head(s), QSum(Tail(s)))

(***************************************************************************)
(* Shapes, chunk partitions, indices                                       *)
(***************************************************************************)
RECURSIVE Prod(_)
Prod(s) == IF s = <<>> THEN 1 ELSE Head(s) * Prod(Tail(s))

RECURSIVE SumSeq(_)
SumSeq(s) == IF s = <<>> THEN 0 ELSE Head(s) + SumSeq(Tail(s))

\* Every way of cutting an axis of extent n into contiguous blocks.
RECURSIVE Compositions(_)
Compositions(n) ==
    IF n = 0 THEN {<<>>}
    ELSE UNION {{<<k>> \o c : c \in Compositions(n - k)} : k \in 1..n}

Shapes ==
    UNION {{s \in [1..r -> 1..MaxSize] : Prod(s) <= MaxSize} : r \in 0..MaxRank}

\* Every chunk partition of an array: one partition of its extent per axis.
RECURSIVE ChunkPartitionsTo(_, _)
ChunkPartitionsTo(shape, a) ==
    IF a = 0 THEN {<<>>}
    ELSE {Append(p, c) : p \in ChunkPartitionsTo(shape, a - 1),
                         c \in Compositions(shape[a])}

ChunkPartitions(shape) == ChunkPartitionsTo(shape, Len(shape))

\* The indices of an array: every tuple of 0-based coordinates within the shape.
RECURSIVE IndicesTo(_, _)
IndicesTo(shape, a) ==
    IF a = 0 THEN {<<>>}
    ELSE {Append(p, k) : p \in IndicesTo(shape, a - 1), k \in 0..shape[a] - 1}

Indices(shape) == IndicesTo(shape, Len(shape))

\* Offsets at which the blocks of a partition end (cumulative sums).
RECURSIVE Breaks(_)
Breaks(c) ==
    IF c = <<>> THEN {} ELSE {SumSeq(c)} \cup Breaks(SubSeq(c, 1, Len(c) - 1))

RECURSIVE FromBreaks(_, _)
FromBreaks(bs, from) ==
    IF bs = {} THEN <<>>
    ELSE LET m == CHOOSE x \in bs : \A y \in bs : x <= y
         IN <<m - from>> \o FromBreaks(bs \ {m}, m)

\* dask's unify_chunks along one axis: the common refinement of the partitions.
UnifyAxis(cs) == FromBreaks(UNION {Breaks(c) : c \in cs}, 0)

NoArray == [shape |-> <<>>, chunks |-> <<>>, dtype |-> "none", vals |-> <<>>]

(***************************************************************************)
(* Arrays and element types                                                *)
(***************************************************************************)
DTypes == {"bool", "int", "float", "complex"}

\* numpy's conversion of a small non-negative integer value to a dtype: bool
\* keeps only whether it is non-zero, the numeric types keep the value.
Cast(v, dtype) == IF dtype = "bool" THEN (IF v = 0 THEN 0 ELSE 1) ELSE v

\* Row-major position of idx in an array of the given shape.
RECURSIVE Ravel(_, _, _)
Ravel(idx, shape, a) ==
    IF a = 0 THEN 0 ELSE Ravel(idx, shape, a - 1) * shape[a] + idx[a]

\* The tests' input: numpy.arange(N).reshape(shape).astype(dtype), wrapped by
\* dask.array.from_array with the given chunks.
InputArray(shape, chunks, dtype) ==
    [shape |-> shape, chunks |-> chunks, dtype |-> dtype,
     vals |-> [idx \in Indices(shape) |-> Cast(Ravel(idx, shape, Len(shape)), dtype)]]

\* input.astype(dtype)
Astype(arr, dtype) ==
    [arr EXCEPT !.dtype = dtype,
                !.vals = [idx \in DOMAIN arr.vals |-> Cast(arr.vals[idx], dtype)]]

\* issubclass(input.dtype.type, numbers.Integral): numpy registers its integer
\* scalar types as Integral; numpy.bool_ is registered with no numbers class.
IsIntegral(dtype) == dtype = "int"

\* issubclass(input.dtype.type, numbers.Real): integer and floating scalar types.
IsRealType(dtype) == dtype \in {"int", "float"}

\* input.real.dtype
RealDType(dtype) == IF dtype = "complex" THEN "float" ELSE dtype

\* dtype.type(numpy.pi).real: pi converted to the given element type.
PiOf(dtype) ==
    CASE dtype = "bool" -> QInt(1)
      [] dtype = "int" -> QInt(3)
      [] OTHER -> Q(1, 1, 1)

(***************************************************************************)
(* _compat._fftfreq(n, chunks): the chunked signed frequency sequence      *)
(***************************************************************************)
\* The blocks of the positions 0..n-1 cut by the partition ch.
ArangeBlocks(n, ch) ==
    [b \in 1..Len(ch) |->
        [k \in 1..ch[b] |-> SumSeq(SubSeq(ch, 1, b - 1)) + k - 1]]

\* One block of positions mapped to 0, 1, ..., (n-1) div 2, -(n div 2), ..., -1
\* over n.
FftfreqBlock(block, n) ==
    [k \in 1..Len(block) |->
        Q(IF block[k] <= (n - 1) \div 2 THEN block[k] ELSE block[k] - n, n, 0)]

RECURSIVE Concat(_)
Concat(blocks) ==
    IF blocks = <<>> THEN <<>> ELSE Head(blocks) \o Concat(Tail(blocks))

Fftfreq(n, ch) ==
    LET blocks == [b \in 1..Len(ch) |-> FftfreqBlock(ArangeBlocks(n, ch)[b], n)]
        flat == Concat(blocks)
    IN [shape |-> <<n>>, chunks |-> <<ch>>, dtype |-> "float",
        vals |-> [idx \in Indices(<<n>>) |-> flat[idx[1] + 1]]]

(***************************************************************************)
(* _get_freq_grid                                                          *)
(***************************************************************************)
\* a[sl] with sl = None on every axis but i: a 1-D array placed on axis i of a
\* rank-ndim array whose other axes have extent 1.
NewAxes(a, i, ndim) ==
    LET shape == [k \in 1..ndim |-> IF k = i THEN a.shape[1] ELSE 1]
    IN [shape |-> shape,
        chunks |-> [k \in 1..ndim |-> IF k = i THEN a.chunks[1] ELSE <<1>>],
        dtype |-> a.dtype,
        vals |-> [idx \in Indices(shape) |-> a.vals[<<idx[i]>>]]]

\* dask.array.repeat(a, repeats, axis) on an axis cut into blocks of extent 1:
\* a itself when repeats = 1, else every block becomes one block of extent
\* repeats, each element repeated in place.
Repeat(a, repeats, axis) ==
    IF repeats = 1 THEN a
    ELSE LET shape == [a.shape EXCEPT ![axis] = @ * repeats]
         IN [shape |-> shape,
             chunks |-> [a.chunks EXCEPT ![axis] =
                            [b \in 1..Len(@) |-> @[b] * repeats]],
             dtype |-> a.dtype,
             vals |-> [idx \in Indices(shape) |->
                          a.vals[[idx EXCEPT ![axis] = @ \div repeats]]]]

\* Mutant: repeats along axis j by the extent of the axis's first block.
RepeatCountFirstBlock(shape, chunks, j) == chunks[j][1]

\* The number of repeats along axis j.
RepeatCount(shape, chunks, j) == shape[j]

\* itertools.chain(range(i), range(i + 1, ndim))
OtherAxes(i, ndim) == [k \in 1..ndim - 1 |-> IF k < i THEN k ELSE k + 1]

RECURSIVE RepeatAll(_, _, _, _, _)
RepeatAll(a, shape, chunks, js, k) ==
    IF k > Len(js) THEN a
    ELSE RepeatAll(Repeat(a, RepeatCount(shape, chunks, js[k]), js[k]),
                   shape, chunks, js, k + 1)

\* One pass of the loop over the axes: the frequency field of axis i.
FreqField(shape, chunks, i) ==
    RepeatAll(NewAxes(Fftfreq(shape[i], chunks[i]), i, Len(shape)),
              shape, chunks, OtherAxes(i, Len(shape)), 1)

\* Mutant: the stacked fields keep the first field's partition, not unified.
StackChunksOfFirst(fields) == fields[1].chunks

\* The chunks dask.array.stack gives the stacked fields on their own axes: it
\* unifies the fields' partitions axis by axis.
StackChunks(fields) ==
    [a \in 1..Len(fields[1].shape) |->
        UnifyAxis({fields[f].chunks[a] : f \in 1..Len(fields)})]

\* dask.array.stack(seq): fails on an empty list and on fields of different
\* shapes; else a new leading axis cut into blocks of extent 1.
Stack(fields) ==
    IF Len(fields) = 0 THEN [err |-> "ValueError", arr |-> NoArray]
    ELSE IF \E f \in 1..Len(fields) : fields[f].shape # fields[1].shape
    THEN [err |-> "ValueError", arr |-> NoArray]
    ELSE LET ndim == Len(fields[1].shape)
             shape == [k \in 1..ndim + 1 |->
                          IF k = 1 THEN Len(fields) ELSE fields[1].shape[k - 1]]
             inner == StackChunks(fields)
         IN [err |-> "none",
             arr |-> [shape |-> shape,
                      chunks |-> [k \in 1..ndim + 1 |->
                                     IF k = 1 THEN [f \in 1..Len(fields) |-> 1]
                                     ELSE inner[k - 1]],
                      dtype |-> "float",
                      vals |-> [idx \in Indices(shape) |->
                                   fields[idx[1] + 1].vals[
                                       [k \in 1..ndim |-> idx[k + 1]]]]]]

\* freq_grid *= 2 * pi
Scale(a, q) == [a EXCEPT !.vals = [idx \in DOMAIN a.vals |-> QMul(a.vals[idx], q)]]

\* freq_grid after i passes of the loop over the axes.
RECURSIVE FreqFields(_, _, _)
FreqFields(shape, chunks, i) ==
    IF i = 0 THEN <<>>
    ELSE Append(FreqFields(shape, chunks, i - 1), FreqField(shape, chunks, i))

GetFreqGrid(shape, chunks, dtype) ==
    LET st == Stack(FreqFields(shape, chunks, Len(shape)))
    IN IF st.err # "none" THEN st
       ELSE [st EXCEPT !.arr = Scale(st.arr, QMul(QInt(2), PiOf(dtype)))]

(***************************************************************************)
(* Validation of sigma / shift and of n                                    *)
(***************************************************************************)
\* A Python value passed as sigma / shift: a number, a sequence of elements, or
\* a value that is neither (a mapping).  An element is a real or a complex
\* number; a complex element is non-real whatever its value.
Elems ==
    {[t |-> "real", v |-> 0], [t |-> "real", v |-> 1], [t |-> "complex", v |-> 0]}

Args ==
    {[kind |-> "number", s |-> <<e>>] : e \in Elems}
    \cup {[kind |-> "mapping", s |-> <<>>]}
    \cup {[kind |-> "sequence", s |-> q] :
             q \in UNION {[1..k -> Elems] : k \in 0..MaxSeqLen}}

NValues == {-2, -1, 0}

\* isinstance(sigma, numbers.Number): sigma = input.ndim * [sigma]
Normalize(arg, ndim) ==
    IF arg.kind = "number" THEN [a \in 1..ndim |-> arg.s[1]] ELSE arg.s

\* Mutant: only the first element is tested.
FirstReal(v) == Len(v) = 0 \/ v[1].t = "real"

\* all(imap(lambda i: isinstance(i, numbers.Real), sigma))
AllReal(v) == \A a \in 1..Len(v) : v[a].t = "real"

\* Mutant: the elements are tested before the length.
VectorErrorElementsFirst(arg, ndim) ==
    IF arg.kind # "number" /\ arg.kind # "sequence"
    THEN [err |-> "TypeError", site |-> "container"]
    ELSE IF ~AllReal(Normalize(arg, ndim))
    THEN [err |-> "TypeError", site |-> "realness"]
    ELSE IF Len(Normalize(arg, ndim)) # ndim
    THEN [err |-> "RuntimeError", site |-> "length"]
    ELSE [err |-> "none", site |-> "none"]

\* The checks of sigma / shift in the order of the code: the container, the
\* length, the elements.
VectorError(arg, ndim) ==
    IF arg.kind # "number" /\ arg.kind # "sequence"
    THEN [err |-> "TypeError", site |-> "container"]
    ELSE IF Len(Normalize(arg, ndim)) # ndim
    THEN [err |-> "RuntimeError", site |-> "length"]
    ELSE IF ~AllReal(Normalize(arg, ndim))
    THEN [err |-> "TypeError", site |-> "realness"]
    ELSE [err |-> "none", site |-> "none"]

\* Mutant: only n >= 0 (the real-transform mode of the docstring) is rejected.
UnsupportedNonNegative(n) == n >= 0

\* if n != -1: raise NotImplementedError
Unsupported(n) == n # -1

(***************************************************************************)
(* The filters                                                             *)
(***************************************************************************)
\* What a call leaves behind: the exception raised (err, and the statement that
\* raised it), the lazy-array operations performed up to there in order, the
\* grid built and the array returned.
Raised(e, ops, grid) ==
    [err |-> e.err, site |-> e.site, ops |-> ops, grid |-> grid, result |-> NoArray]

Returned(ops, grid, result) ==
    [err |-> "none", site |-> "none", ops |-> ops, grid |-> grid, result |-> result]

NoOutcome == Raised([err |-> "none", site |-> "none"], <<>>, NoArray)

Zero == QInt(0)

\* numpy.array(sigma) ** 2 and the like work on the elements' values.
Values(v) == [a \in 1..Len(v) |-> v[a].v]

\* dask.array.tensordot(w, grid, axes=1): the sum over the leading axis of
\* w[axis] * grid[axis], at every index of the trailing axes.
Tensordot(w, grid) ==
    LET ndim == Len(grid.shape) - 1
        shape == [k \in 1..ndim |-> grid.shape[k + 1]]
    IN [shape |-> shape,
        chunks |-> [k \in 1..ndim |-> grid.chunks[k + 1]],
        dtype |-> "float",
        vals |-> [idx \in Indices(shape) |->
                     QSum([a \in 1..ndim |->
                              QMul(QInt(w[a]),
                                   grid.vals[[k \in 1..ndim + 1 |->
                                       IF k = 1 THEN a - 1 ELSE idx[k - 1]]])])]]

Square(a) ==
    [a EXCEPT !.vals = [idx \in DOMAIN a.vals |->
                           LET v == a.vals[idx] IN QMul(v, v)]]

\* The element type of a product of two arrays.
ResultType(d1, d2) == IF "complex" \in {d1, d2} THEN "complex" ELSE "float"

\* input * kernel: elementwise, on the unified chunks.  An element is kept as
\* the input's value x and the argument re + i*im of the kernel's exponential.
Multiply(x, kernel) ==
    [shape |-> x.shape,
     chunks |-> [a \in 1..Len(x.shape) |-> UnifyAxis({x.chunks[a], kernel.chunks[a]})],
     dtype |-> ResultType(x.dtype, kernel.dtype),
     vals |-> [idx \in Indices(x.shape) |->
                  LET k == kernel.vals[idx]
                  IN [x |-> x.vals[idx], re |-> k.re, im |-> k.im]]]

NotImplemented == [err |-> "NotImplementedError", site |-> "n"]
StackFailed == [err |-> "ValueError", site |-> "stack"]

\* Lines 115-127: the grid, the Gaussian and the product.
GaussianKernel(x, sigma, ops) ==
    LET g == GetFreqGrid(x.shape, x.chunks, RealDType(x.dtype))
    IN IF g.err # "none" THEN Raised(StackFailed, ops, NoArray)
       ELSE LET sq == [a \in 1..Len(sigma) |-> sigma[a] * sigma[a]]
                t == Tensordot(sq, Square(g.arr))
                gaussian == [t EXCEPT !.vals = [idx \in DOMAIN t.vals |->
                                [re |-> QNeg(QHalf(t.vals[idx])), im |-> Zero]]]
            IN Returned(ops \o <<"freq_grid", "tensordot", "exp", "multiply">>,
                        g.arr, Multiply(x, gaussian))

\* Mutant: n is checked after the kernel has been built.
FourierGaussianLateCheck(input, sigma, n) ==
    LET promote == IsIntegral(input.dtype)
        x == IF promote THEN Astype(input, "float") ELSE input
        ops == IF promote THEN <<"astype">> ELSE <<>>
        e == VectorError(sigma, Len(x.shape))
        k == GaussianKernel(x, Values(Normalize(sigma, Len(x.shape))), ops)
    IN IF e.err # "none" THEN Raised(e, ops, NoArray)
       ELSE IF Unsupported(n) /\ k.err = "none"
       THEN Raised(NotImplemented, k.ops, k.grid)
       ELSE k

FourierGaussian(input, sigma, n) ==
    LET promote == IsIntegral(input.dtype)
        x == IF promote THEN Astype(input, "float") ELSE input
        ops == IF promote THEN <<"astype">> ELSE <<>>
        e == VectorError(sigma, Len(x.shape))
    IN IF e.err # "none" THEN Raised(e, ops, NoArray)
       ELSE IF Unsupported(n) THEN Raised(NotImplemented, ops, NoArray)
       ELSE GaussianKernel(x, Values(Normalize(sigma, Len(x.shape))), ops)

\* What the build's numpy does for -J when J is a numpy.bool_: it raises
\* TypeError, or (older releases) it returns the logical negation.
BoolNegative == {"TypeError", "logical_not"}

\* Lines 194-208: J, the grid, the phase factor and the product.  J is 1j in the
\* input's element type: the imaginary unit for a complex type, True for bool.
ShiftKernel(x, shift, ops, boolNeg) ==
    LET g == GetFreqGrid(x.shape, x.chunks, x.dtype)
        isBool == x.dtype = "bool"
    IN IF g.err # "none" THEN Raised(StackFailed, ops, NoArray)
       ELSE IF isBool /\ boolNeg = "TypeError"
       THEN Raised([err |-> "TypeError", site |-> "negative"],
                   ops \o <<"freq_grid">>, g.arr)
       ELSE LET t == Tensordot(shift, g.arr)
                phase == [t EXCEPT
                             !.dtype = IF isBool THEN "float" ELSE "complex",
                             !.vals = [idx \in DOMAIN t.vals |->
                                 [re |-> Zero,
                                  im |-> IF isBool THEN Zero
                                         ELSE QNeg(t.vals[idx])]]]
            IN Returned(ops \o <<"freq_grid", "tensordot", "exp", "multiply">>,
                        g.arr, Multiply(x, phase))

FourierShift(input, shift, n, boolNeg) ==
    LET promote == IsRealType(input.dtype)
        x == IF promote THEN Astype(input, "complex") ELSE input
        ops == IF promote THEN <<"astype">> ELSE <<>>
        e == VectorError(shift, Len(x.shape))
    IN IF e.err # "none" THEN Raised(e, ops, NoArray)
       ELSE IF Unsupported(n) THEN Raised(NotImplemented, ops, NoArray)
       ELSE ShiftKernel(x, Values(Normalize(shift, Len(x.shape))), ops, boolNeg)

(***************************************************************************)
(* The state machine: one call of a filter on one input                    *)
(***************************************************************************)
\* input, s, n: the arguments of the call; build: what the build's numpy does
\* for the negative of a numpy.bool_; call: the filter called, "none" before
\* the call; out: what the call left behind.
VARIABLES input, s, n, build, call, out

vars == <<input, s, n, build, call, out>>

Init ==
    /\ \E shape \in Shapes : \E chunks \in ChunkPartitions(shape) :
         \E dtype \in DTypes : input = InputArray(shape, chunks, dtype)
    /\ s \in Args
    /\ n \in NValues
    /\ build \in BoolNegative
    /\ call = "none"
    /\ out = NoOutcome

CallFourierGaussian ==
    /\ call = "none"
    /\ call' = "fourier_gaussian"
    /\ out' = FourierGaussian(input, s, n)
    /\ UNCHANGED <<input, s, n, build>>

CallFourierShift ==
    /\ call = "none"
    /\ call' = "fourier_shift"
    /\ out' = FourierShift(input, s, n, build)
    /\ UNCHANGED <<input, s, n, build>>

Next == CallFourierGaussian \/ CallFourierShift

Spec == Init /\ [][Next]_vars

(***************************************************************************)
(* Properties                                                              *)
(***************************************************************************)
Done == call # "none"
Rank == Len(input.shape)
RealElem(v) == [t |-> "real", v |-> v]

\* sigma / shift is valid: a real scalar, or a sequence of reals of length rank.
ValidArg ==
    \/ s.kind = "number" /\ s.s[1].t = "real"
    \/ s.kind = "sequence" /\ Len(s.s) = Rank /\ \A a \in 1..Len(s.s) : s.s[a].t = "real"

\* sigma / shift is 0, or the all-zero vector of length rank.
ZeroArg ==
    \/ s.kind = "number" /\ s.s[1] = RealElem(0)
    \/ s.kind = "sequence" /\ Len(s.s) = Rank /\ \A a \in 1..Len(s.s) : s.s[a] = RealElem(0)

HasNonReal == \E a \in 1..Len(s.s) : s.s[a].t # "real"
ValidationSites == {"container", "length", "realness", "n"}
MultiChunk == \E a \in 1..Rank : Len(input.chunks[a]) > 1
HasGrid == out.grid # NoArray

\* C1: a call with sigma / shift 0 (scalar, or all-zero vector of length rank)
\* and n = -1 returns an array equal to the input element for element.
C1_ZeroIsIdentity ==
    (Done /\ ZeroArg /\ n = -1) =>
        /\ out.err = "none"
        /\ out.result.shape = input.shape
        /\ \A idx \in Indices(input.shape) :
              /\ out.result.vals[idx].x = input.vals[idx]
              /\ out.result.vals[idx].re = Zero
              /\ out.result.vals[idx].im = Zero

\* C2: with a valid sigma / shift and n other than -1, both filters raise
\* NotImplementedError and return nothing.
C2_UnsupportedMode ==
    (Done /\ ValidArg /\ n # -1) =>
        out.err = "NotImplementedError" /\ out.result = NoArray

C2_Witness ==
    /\ call = "fourier_shift" /\ n = -2 /\ Rank = 2
    /\ s.kind = "sequence" /\ ValidArg
    /\ out.err = "NotImplementedError"

\* C3: a sequence whose length differs from the rank makes both filters raise
\* RuntimeError, whatever its elements and whatever n.
C3_LengthError ==
    (Done /\ s.kind = "sequence" /\ Len(s.s) # Rank) =>
        out.err = "RuntimeError" /\ out.site = "length"

C3_Witness ==
    /\ call = "fourier_gaussian" /\ n # -1 /\ Rank = 2
    /\ s.kind = "sequence" /\ Len(s.s) = 1 /\ HasNonReal
    /\ out.err = "RuntimeError"

\* C4 as stated: a sequence with a non-real element makes both filters raise
\* TypeError, whatever its length.
C4_NonRealAnyLength ==
    (Done /\ s.kind = "sequence" /\ HasNonReal) => out.err = "TypeError"

\* C4 amended: a sequence with a non-real element makes both filters raise
\* TypeError when its length equals the rank, and RuntimeError when it differs.
C4_NonRealRankLength ==
    (Done /\ s.kind = "sequence" /\ HasNonReal) =>
        /\ Len(s.s) = Rank => out.err = "TypeError" /\ out.site = "realness"
        /\ Len(s.s) # Rank => out.err = "RuntimeError"

C4_Witness ==
    /\ call = "fourier_shift" /\ Rank = 2 /\ n = -1
    /\ s.kind = "sequence" /\ Len(s.s) = 2
    /\ s.s[1].t = "real" /\ s.s[2].t = "complex"
    /\ out.err = "TypeError"

\* C5 as stated: a call that ends in a type, length or unsupported-mode error
\* has performed no array operation at all before the raise.
C5_NoOperationBeforeRaise ==
    (Done /\ out.site \in ValidationSites) => out.ops = <<>>

\* C5 amended: a call that ends in a type, length or unsupported-mode error has
\* built no grid, no contraction and no product before the raise; the one array
\* operation that can precede the raise is the dtype promotion of the input,
\* which does precede it exactly for an integer input of fourier_gaussian and
\* an integer or real floating input of fourier_shift.
C5_OnlyPromotionBeforeRaise ==
    (Done /\ out.site \in ValidationSites) =>
        /\ out.grid = NoArray /\ out.result = NoArray
        /\ out.ops \in {<<>>, <<"astype">>}
        /\ out.ops = <<"astype">> <=>
              \/ call = "fourier_gaussian" /\ input.dtype = "int"
              \/ call = "fourier_shift" /\ input.dtype \in {"int", "float"}

C5_Witness ==
    /\ call = "fourier_gaussian" /\ input.dtype = "int" /\ Rank = 2
    /\ out.err = "NotImplementedError" /\ out.ops = <<"astype">>

\* The call got as far as building the phase factor (line 203).
ReachedPhase == out.site = "negative" \/ out.err = "none"

\* C6: for every input element type, with a valid shift and n = -1,
\* fourier_shift has promoted a non-complex input to complex when it builds the
\* phase factor, and what it returns is complex-typed.
C6_ShiftPromotesToComplex ==
    (Done /\ call = "fourier_shift" /\ ValidArg /\ n = -1 /\ ReachedPhase) =>
        /\ input.dtype # "complex" => Head(out.ops) = "astype"
        /\ out.err = "none" => out.result.dtype = "complex"

\* C7: the grid has a leading axis of extent rank, cut into blocks of extent 1,
\* and on its other axes the caller's shape and the caller's chunk partition.
C7_GridShapeAndChunks ==
    HasGrid =>
        /\ Rank >= 1
        /\ Len(out.grid.shape) = Rank + 1
        /\ out.grid.shape[1] = Rank
        /\ \A a \in 1..Rank :
              /\ out.grid.shape[a + 1] = input.shape[a]
              /\ out.grid.chunks[a + 1] = input.chunks[a]

C7_Witness ==
    /\ HasGrid /\ Rank = 2
    /\ Len(input.chunks[1]) = 1 /\ Len(input.chunks[2]) > 1

\* The state's call made on the same logical array held in one block.
Unchunked ==
    LET x == InputArray(input.shape, [a \in 1..Rank |-> <<input.shape[a]>>],
                        input.dtype)
    IN IF call = "fourier_gaussian" THEN FourierGaussian(x, s, n)
       ELSE FourierShift(x, s, n, build)

\* C8: with a valid sigma / shift and n = -1, a call under any chunk partition
\* ends as the call on the same array in one block does and, when it returns,
\* returns the same value at every index; any two partitions of the array then
\* give equal results.
C8_ChunkInvariance ==
    (Done /\ ValidArg /\ n = -1) =>
        /\ out.err = Unchunked.err
        /\ out.err = "none" => out.result.vals = Unchunked.result.vals

C8_Witness ==
    /\ Done /\ ValidArg /\ n = -1 /\ out.err = "none"
    /\ Rank = 2 /\ Len(input.chunks[1]) > 1 /\ Len(input.chunks[2]) > 1
    /\ \E idx \in Indices(input.shape) :
          out.result.vals[idx].re # Zero \/ out.result.vals[idx].im # Zero

\* The signed frequency index of position k on an axis of extent len.
SignedIndex(k, len) == IF k <= (len - 1) \div 2 THEN k ELSE k - len

\* C9: every entry of the grid is 2*pi times the signed frequency of its
\* coordinate on the grid's axis, whatever the other coordinates.
C9_GridValues ==
    HasGrid =>
        \A a \in 1..Rank : \A idx \in Indices(input.shape) :
            out.grid.vals[[k \in 1..Rank + 1 |-> IF k = 1 THEN a - 1 ELSE idx[k - 1]]]
                = Q(2 * SignedIndex(idx[a], input.shape[a]), input.shape[a], 1)

\* C10: with an invalid sigma / shift and n other than -1 the call fails with
\* the error of sigma / shift and never with NotImplementedError: TypeError for
\* a complex scalar, a mapping or a rank-length sequence with a non-real
\* element, RuntimeError for a sequence of another length.
C10_VectorErrorFirst ==
    (Done /\ ~ValidArg /\ n # -1) =>
        /\ out.err # "NotImplementedError"
        /\ s.kind \in {"number", "mapping"} => out.err = "TypeError"
        /\ (s.kind = "sequence" /\ Len(s.s) # Rank) => out.err = "RuntimeError"
        /\ (s.kind = "sequence" /\ Len(s.s) = Rank) => out.err = "TypeError"

====
